---- MODULE Spec2Model ----
(***************************************************************************)
(* Model of routes/snowflake.js: the three POST handlers of the Snowflake  *)
(* router ('/', '/query', '/relation-preview'), the two helpers they share *)
(* (validateSnowflakeConnectionParams, getSnowflakeConnection) and the     *)
(* promise wrapper executeSnowflakeQuery.                                  *)
(*                                                                         *)
(* A JavaScript string is a sequence of tokens, so that '+' and template   *)
(* interpolation are sequence concatenation.  Each action is one run of a  *)
(* handler between two awaits: the synchronous prefix up to the call of    *)
(* sfConn.connect, then one action per driver callback.  The driver is an  *)
(* opaque collaborator: every outcome of createConnection, connect and     *)
(* execute is a nondeterministic choice.                                   *)
(***************************************************************************)
EXTENDS Integers, Sequences, FiniteSets, TLC

\* ------------------------------------------------------------------ bounds
NumReq == 2          \* requests in flight at the same time
MaxMsg == 1          \* distinct error messages the driver can report
MaxCnt == 1          \* largest CNT value the driver can return

Reqs == 1..NumReq

\* ------------------------------------------------------- JavaScript values
Undef == <<"<undefined>">>       \* a body field that is absent
Empty == << >>                   \* the empty string ''
Truthy(v) == v # Undef /\ v # Empty

Digit == <<"0", "1", "2", "3", "4", "5", "6", "7", "8", "9">>

RECURSIVE NatToString(_)
NatToString(n) ==
  IF n < 10 THEN <<Digit[n + 1]>>
            ELSE NatToString(n \div 10) \o <<Digit[(n % 10) + 1]>>

\* `${v}` inside a template literal: undefined is rendered as "undefined"
Interp(v) == IF v = Undef THEN <<"undefined">> ELSE v

\* what a function without a return value, or a '? null :' expression, gives
Null == [status |-> "null", reason |-> << >>]

Endpoints == {"/", "/query", "/relation-preview"}

\* ------------------------------------------------------------- the helpers
\* the mutant checks username before account
validateUsernameFirst(account, username, password) ==
  IF ~Truthy(username) THEN [status |-> "unsuccessful", reason |-> <<"invalid username">>]
  ELSE IF ~Truthy(account) THEN [status |-> "unsuccessful", reason |-> <<"invalid account">>]
  ELSE IF ~Truthy(password) THEN [status |-> "unsuccessful", reason |-> <<"invalid password">>]
  ELSE Null

validateSnowflakeConnectionParams(account, username, password) ==
  IF ~Truthy(account) THEN [status |-> "unsuccessful", reason |-> <<"invalid account">>]
  ELSE IF ~Truthy(username) THEN [status |-> "unsuccessful", reason |-> <<"invalid username">>]
  ELSE IF ~Truthy(password) THEN [status |-> "unsuccessful", reason |-> <<"invalid password">>]
  ELSE Null

\* the mutant passes role to the driver whether or not it was supplied
connParamsAlwaysRole(account, username, password, role, warehouse) ==
  LET required == [account |-> account, username |-> username, password |-> password]
      withRole == ("role" :> role) @@ required
  IN  IF Truthy(warehouse) THEN ("warehouse" :> warehouse) @@ withRole ELSE withRole

\* the parameter object getSnowflakeConnection hands to snowflake.createConnection
getSnowflakeConnection(account, username, password, role, warehouse) ==
  LET required == [account |-> account, username |-> username, password |-> password]
      withRole == IF Truthy(role) THEN ("role" :> role) @@ required ELSE required
  IN  IF Truthy(warehouse) THEN ("warehouse" :> warehouse) @@ withRole ELSE withRole

\* '/query': query ? null : {...}
queryValidation(query) ==
  IF Truthy(query) THEN Null
  ELSE [status |-> "unsuccessful", reason |-> <<"A query must be provided">>]

NotNull(x) == x # Null

\* the mutant tests relation first
previewValidationRelationFirst(database, schema, relation) ==
  SelectSeq(<<
    IF Truthy(relation) THEN Null
      ELSE [status |-> "unsuccessful", reason |-> <<"A relation must be provided">>],
    IF Truthy(database) THEN Null
      ELSE [status |-> "unsuccessful", reason |-> <<"A database must be provided">>],
    IF Truthy(schema) THEN Null
      ELSE [status |-> "unsuccessful", reason |-> <<"A schema must be provided">>]
  >>, NotNull)

\* '/relation-preview': the three checks in a list, nulls filtered out
previewValidation(database, schema, relation) ==
  SelectSeq(<<
    IF Truthy(database) THEN Null
      ELSE [status |-> "unsuccessful", reason |-> <<"A database must be provided">>],
    IF Truthy(schema) THEN Null
      ELSE [status |-> "unsuccessful", reason |-> <<"A schema must be provided">>],
    IF Truthy(relation) THEN Null
      ELSE [status |-> "unsuccessful", reason |-> <<"A relation must be provided">>]
  >>, NotNull)

numRowsInPreview == 100

Relation(b) == Interp(b.database) \o <<".">> \o Interp(b.schema) \o <<".">> \o Interp(b.relation)

previewQuery(b) ==
  <<"SELECT * FROM ">> \o Relation(b) \o <<" LIMIT ">> \o NatToString(numRowsInPreview) \o <<";">>

describeQuery(b) == <<"DESCRIBE TABLE ">> \o Relation(b) \o <<";">>

countQuery(b) == <<"SELECT COUNT(*) AS CNT FROM ">> \o Relation(b) \o <<";">>

connectError(message) ==
  [status |-> "unsuccessful", reason |-> <<"Error connecting to Snowflake: ">> \o message]

queryError(message) ==
  [status |-> "unsuccessful", reason |-> <<"Error executing Snowflake query: ">> \o message]

connectSuccess(id) == [status |-> "successful", connectionId |-> id]

querySuccess(queryResponse) == [status |-> "successful", response |-> queryResponse]

\* the mutant answers with the two results exchanged
previewSuccessSwapped(preview, columns, rowcount) ==
  [status |-> "successful", preview |-> columns, columns |-> preview, rowcount |-> rowcount]

previewSuccess(preview, columns, rowcount) ==
  [status |-> "successful", preview |-> preview, columns |-> columns, rowcount |-> rowcount]

\* message of the TypeError that reading a property of undefined raises
TypeErrorMessage == <<"Cannot read property 'CNT' of undefined">>

\* the mutant reads the count defensively
rowcountOrZero(rows) ==
  IF Len(rows) = 0 THEN [threw |-> FALSE, message |-> << >>, value |-> 0]
  ELSE [threw |-> FALSE, message |-> << >>, value |-> rows[1].CNT]

\* rowcountResponse.rows[0].CNT
readRowcount(rows) ==
  IF Len(rows) = 0 THEN [threw |-> TRUE, message |-> TypeErrorMessage, value |-> 0]
  ELSE [threw |-> FALSE, message |-> << >>, value |-> rows[1].CNT]

\* -------------------------------------------------------------- the driver
Msgs == {<<"driver error ">> \o NatToString(i) : i \in 1..MaxMsg}

RowSets == {<< >>} \cup {<<[CNT |-> n]>> : n \in 1..MaxCnt}
                   \cup {<<[CNT |-> MaxCnt], [CNT |-> 0]>>}

Pending == [kind |-> "pending", message |-> << >>, rows |-> << >>]
Ok(rows) == [kind |-> "ok", message |-> << >>, rows |-> rows]
Err(message) == [kind |-> "err", message |-> message, rows |-> << >>]


\* resolve({stmt, rows})
Resolved(sqlText, rows) == [stmt |-> [sqlText |-> sqlText], rows |-> rows]
NoResponse == [stmt |-> [sqlText |-> <<"<null>">>], rows |-> << >>]

\* the mutant keeps one connection for the whole module
sharedConnection(r) == 1

\* snowflake.createConnection returns a new object on every call: the handle
\* is named after the invocation that created it
createConnection(r) == r

ConnectionId(h) == <<"connection ">> \o NatToString(h)

\* ------------------------------------------------------------------- state
VARIABLES
  endpoint,      \* endpoint[r]: the route of request r
  body,          \* body[r]: req.body
  pc,            \* pc[r]: where the handler of r is
  sent,          \* sent[r]: the arguments of the res.send calls of r, in order
  connParams,    \* connParams[r]: the object passed to snowflake.createConnection
  sfConn,        \* sfConn[r]: the handle the handler holds, 0 before it has one
  driverLog,     \* driverLog[h]: the calls made on handle h, with their outcomes
  dataPreviewResponse,     \* locals of the '/relation-preview' handler
  columnDetailsResponse,
  resendThrows,  \* whether res.send on an answered request throws
  driver         \* the error messages and row sets the driver can come back with

vars == <<endpoint, body, pc, sent, connParams, sfConn, driverLog,
          dataPreviewResponse, columnDetailsResponse, resendThrows, driver>>

\* the callback of connect receives an error or nothing
ConnectOutcomes == {Ok(<< >>)} \cup {Err(m) : m \in driver.messages}
\* the complete callback of execute receives (err, stmt, rows)
ExecuteOutcomes == {Ok(rows) : rows \in driver.rowSets} \cup {Err(m) : m \in driver.messages}

\* connParams before getSnowflakeConnection has run
NotCalled == [uncalled |-> TRUE]

AbsentBody ==
  [account |-> Undef, username |-> Undef, password |-> Undef, role |-> Undef,
   warehouse |-> Undef, query |-> Undef, database |-> Undef, schema |-> Undef,
   relation |-> Undef]

ValidBody ==
  [account |-> <<"acct1">>, username |-> <<"u">>, password |-> <<"p">>, role |-> Undef,
   warehouse |-> <<"DEMO_WH">>, query |-> <<"SHOW DATABASES;">>,
   database |-> <<"MY_DATABASE">>, schema |-> <<"MY_SCHEMA">>, relation |-> <<"MY_TABLE">>]

Bodies ==
  [account   : {Undef, Empty, <<"acct1">>},
   username  : {Undef, Empty, <<"u">>},
   password  : {Undef, Empty, <<"p">>},
   role      : {Undef, Empty, <<"ACCOUNTADMIN">>},
   warehouse : {Undef, Empty, <<"DEMO_WH">>},
   query     : {Undef, <<"SHOW DATABASES;">>},
   database  : {Undef, <<"MY_DATABASE">>},
   schema    : {Undef, <<"MY_SCHEMA">>},
   relation  : {Undef, <<"MY_TABLE">>}]

\* the requests that run concurrently
ConcRequests ==
  {[endpoint |-> "/", body |-> ValidBody],
   [endpoint |-> "/query", body |-> ValidBody],
   [endpoint |-> "/query", body |-> [ValidBody EXCEPT !.query = Undef]],
   [endpoint |-> "/relation-preview", body |-> ValidBody],
   [endpoint |-> "/relation-preview",
    body |-> [ValidBody EXCEPT !.account = Empty, !.relation = Undef,
                               !.role = <<"ACCOUNTADMIN">>]]}

InitRest ==
  /\ sent = [r \in Reqs |-> << >>]
  /\ connParams = [r \in Reqs |-> NotCalled]
  /\ sfConn = [r \in Reqs |-> 0]
  /\ driverLog = [h \in Reqs |-> << >>]
  /\ dataPreviewResponse = [r \in Reqs |-> NoResponse]
  /\ columnDetailsResponse = [r \in Reqs |-> NoResponse]
  /\ resendThrows \in BOOLEAN

\* one request, any body
Init ==
  /\ \E ep \in Endpoints : endpoint = [r \in Reqs |-> IF r = 1 THEN ep ELSE "/"]
  /\ \E b \in Bodies : body = [r \in Reqs |-> IF r = 1 THEN b ELSE AbsentBody]
  /\ pc = [r \in Reqs |-> IF r = 1 THEN "received" ELSE "unused"]
  /\ driver = [messages |-> Msgs, rowSets |-> RowSets]
  /\ InitRest

\* NumReq requests in flight
InitConc ==
  /\ \E req \in [Reqs -> ConcRequests] :
       /\ endpoint = [r \in Reqs |-> req[r].endpoint]
       /\ body = [r \in Reqs |-> req[r].body]
  /\ pc = [r \in Reqs |-> "received"]
  /\ driver = [messages |-> {<<"driver error ">> \o NatToString(1)},
               rowSets |-> {<< >>, <<[CNT |-> MaxCnt]>>}]
  /\ InitRest

\* ------------------------------------------------------------ the handlers
\* res.send on a request that was already answered: nothing more reaches the
\* client, and the call throws or returns depending on resendThrows
Throws(s) == Len(s) > 0 /\ resendThrows

Terminal(r) == pc[r] \in {"done", "threw"}

\* what the client of r receives: the first body passed to res.send
Answered(r) == Len(sent[r]) > 0
Response(r) == sent[r][1]

Call(r, op, sqlText) == [op |-> op, by |-> r, sqlText |-> sqlText, outcome |-> Pending]

\* the driver invokes the callback of the pending call of r on handle h
Complete(log, r, o) ==
  [i \in DOMAIN log |->
     IF log[i].by = r /\ log[i].outcome = Pending THEN [log[i] EXCEPT !.outcome = o]
     ELSE log[i]]

\* the second validation of the handler of r (none on '/')
SecondValidation(r) ==
  LET b == body[r] IN
  CASE endpoint[r] = "/" -> << >>
    [] endpoint[r] = "/query" ->
         SelectSeq(<<queryValidation(b.query)>>, NotNull)
    [] endpoint[r] = "/relation-preview" ->
         previewValidation(b.database, b.schema, b.relation)

\* The handler runs from its first line to its first await: both validations,
\* getSnowflakeConnection, and the call of sfConn.connect.
Start(r) ==
  /\ pc[r] = "received"
  /\ LET b  == body[r]
         cv == validateSnowflakeConnectionParams(b.account, b.username, b.password)
         s1 == IF cv # Null THEN Append(sent[r], cv) ELSE sent[r]
         qv == SecondValidation(r)
         s2 == IF Len(qv) > 0 THEN Append(s1, qv[1]) ELSE s1
     IN  /\ sent' = [sent EXCEPT ![r] = s2]
         /\ IF Len(qv) > 0 /\ Throws(s1)
            THEN /\ pc' = [pc EXCEPT ![r] = "threw"]
                 /\ UNCHANGED <<connParams, sfConn, driverLog>>
            ELSE /\ connParams' = [connParams EXCEPT ![r] =
                       getSnowflakeConnection(b.account, b.username, b.password,
                                              b.role, b.warehouse)]
                 /\ \E created \in BOOLEAN :
                      IF created
                      THEN LET h == createConnection(r) IN
                           /\ sfConn' = [sfConn EXCEPT ![r] = h]
                           /\ driverLog' = [driverLog EXCEPT ![h] =
                                              Append(@, Call(r, "connect", << >>))]
                           /\ pc' = [pc EXCEPT ![r] = "awaitConnect"]
                      ELSE /\ pc' = [pc EXCEPT ![r] = "threw"]
                           /\ UNCHANGED <<sfConn, driverLog>>
  /\ UNCHANGED <<endpoint, body, dataPreviewResponse, columnDetailsResponse,
                 resendThrows, driver>>

\* catch (err) { res.send({... "Error executing Snowflake query: " + err.message}); return; }
Caught(r, message) ==
  /\ sent' = [sent EXCEPT ![r] = Append(@, queryError(message))]
  /\ pc' = [pc EXCEPT ![r] = IF Throws(sent[r]) THEN "threw" ELSE "done"]
  /\ dataPreviewResponse' = [dataPreviewResponse EXCEPT ![r] = NoResponse]
  /\ columnDetailsResponse' = [columnDetailsResponse EXCEPT ![r] = NoResponse]

\* the callback of sfConn.connect
ConnectDone(r) ==
  /\ pc[r] = "awaitConnect"
  /\ \E o \in ConnectOutcomes :
       LET h    == sfConn[r]
           log1 == Complete(driverLog[h], r, o)
           getId == [Call(r, "getId", << >>) EXCEPT
                       !.outcome = [Ok(<< >>) EXCEPT !.message = ConnectionId(h)]]
       IN
       CASE endpoint[r] = "/" ->
              LET s1 == IF o.kind = "err" THEN Append(sent[r], connectError(o.message))
                                          ELSE sent[r]
              IN  /\ UNCHANGED <<dataPreviewResponse, columnDetailsResponse>>
                  /\ IF o.kind = "err" /\ Throws(sent[r])
                     THEN /\ sent' = [sent EXCEPT ![r] = s1]
                          /\ driverLog' = [driverLog EXCEPT ![h] = log1]
                          /\ pc' = [pc EXCEPT ![r] = "threw"]
                     ELSE /\ sent' = [sent EXCEPT ![r] =
                                        Append(s1, connectSuccess(ConnectionId(h)))]
                          /\ driverLog' = [driverLog EXCEPT ![h] = Append(log1, getId)]
                          /\ pc' = [pc EXCEPT ![r] = IF Throws(s1) THEN "threw" ELSE "done"]
         [] endpoint[r] = "/query" ->
              IF o.kind = "err"
              THEN /\ Caught(r, o.message)
                   /\ driverLog' = [driverLog EXCEPT ![h] = log1]
              ELSE /\ driverLog' = [driverLog EXCEPT ![h] =
                                      Append(log1, Call(r, "execute", body[r].query))]
                   /\ pc' = [pc EXCEPT ![r] = "awaitQuery"]
                   /\ UNCHANGED <<sent, dataPreviewResponse, columnDetailsResponse>>
         [] endpoint[r] = "/relation-preview" ->
              IF o.kind = "err"
              THEN /\ Caught(r, o.message)
                   /\ driverLog' = [driverLog EXCEPT ![h] = log1]
              ELSE /\ driverLog' = [driverLog EXCEPT ![h] =
                                      Append(log1, Call(r, "execute", previewQuery(body[r])))]
                   /\ pc' = [pc EXCEPT ![r] = "awaitPreview"]
                   /\ UNCHANGED <<sent, dataPreviewResponse, columnDetailsResponse>>
  /\ UNCHANGED <<endpoint, body, connParams, sfConn, resendThrows, driver>>

\* '/query': the complete callback of the caller's statement
QueryDone(r) ==
  /\ pc[r] = "awaitQuery"
  /\ \E o \in ExecuteOutcomes :
       LET h == sfConn[r] IN
       /\ driverLog' = [driverLog EXCEPT ![h] = Complete(@, r, o)]
       /\ IF o.kind = "err"
          THEN Caught(r, o.message)
          ELSE /\ sent' = [sent EXCEPT ![r] =
                             Append(@, querySuccess(Resolved(body[r].query, o.rows)))]
               /\ pc' = [pc EXCEPT ![r] = IF Throws(sent[r]) THEN "threw" ELSE "done"]
               /\ UNCHANGED <<dataPreviewResponse, columnDetailsResponse>>
  /\ UNCHANGED <<endpoint, body, connParams, sfConn, resendThrows, driver>>

\* '/relation-preview': the complete callback of SELECT * ... LIMIT 100
PreviewDone(r) ==
  /\ pc[r] = "awaitPreview"
  /\ \E o \in ExecuteOutcomes :
       LET h == sfConn[r] IN
       IF o.kind = "err"
       THEN /\ Caught(r, o.message)
            /\ driverLog' = [driverLog EXCEPT ![h] = Complete(@, r, o)]
       ELSE /\ dataPreviewResponse' = [dataPreviewResponse EXCEPT ![r] =
                                         Resolved(previewQuery(body[r]), o.rows)]
            /\ driverLog' = [driverLog EXCEPT ![h] =
                  Append(Complete(@, r, o), Call(r, "execute", describeQuery(body[r])))]
            /\ pc' = [pc EXCEPT ![r] = "awaitDescribe"]
            /\ UNCHANGED <<sent, columnDetailsResponse>>
  /\ UNCHANGED <<endpoint, body, connParams, sfConn, resendThrows, driver>>

\* '/relation-preview': the complete callback of DESCRIBE TABLE
DescribeDone(r) ==
  /\ pc[r] = "awaitDescribe"
  /\ \E o \in ExecuteOutcomes :
       LET h == sfConn[r] IN
       IF o.kind = "err"
       THEN /\ Caught(r, o.message)
            /\ driverLog' = [driverLog EXCEPT ![h] = Complete(@, r, o)]
       ELSE /\ columnDetailsResponse' = [columnDetailsResponse EXCEPT ![r] =
                                           Resolved(describeQuery(body[r]), o.rows)]
            /\ driverLog' = [driverLog EXCEPT ![h] =
                  Append(Complete(@, r, o), Call(r, "execute", countQuery(body[r])))]
            /\ pc' = [pc EXCEPT ![r] = "awaitCount"]
            /\ UNCHANGED <<sent, dataPreviewResponse>>
  /\ UNCHANGED <<endpoint, body, connParams, sfConn, resendThrows, driver>>

\* '/relation-preview': the complete callback of SELECT COUNT(*), the read of
\* rows[0].CNT inside the same try block, and the success response
CountDone(r) ==
  /\ pc[r] = "awaitCount"
  /\ \E o \in ExecuteOutcomes :
       LET h     == sfConn[r]
           count == readRowcount(o.rows)
       IN
       /\ driverLog' = [driverLog EXCEPT ![h] = Complete(@, r, o)]
       /\ IF o.kind = "err" THEN Caught(r, o.message)
          ELSE IF count.threw THEN Caught(r, count.message)
          ELSE /\ sent' = [sent EXCEPT ![r] =
                     Append(@, previewSuccess(dataPreviewResponse[r],
                                              columnDetailsResponse[r], count.value))]
               /\ pc' = [pc EXCEPT ![r] = IF Throws(sent[r]) THEN "threw" ELSE "done"]
               /\ dataPreviewResponse' = [dataPreviewResponse EXCEPT ![r] = NoResponse]
               /\ columnDetailsResponse' = [columnDetailsResponse EXCEPT ![r] = NoResponse]
  /\ UNCHANGED <<endpoint, body, connParams, sfConn, resendThrows, driver>>

Next ==
  \E r \in Reqs :
    \/ Start(r)
    \/ ConnectDone(r)
    \/ QueryDone(r)
    \/ PreviewDone(r)
    \/ DescribeDone(r)
    \/ CountDone(r)

Spec == Init /\ [][Next]_vars

SpecConc == InitConc /\ [][Next]_vars

TypeOK ==
  /\ \A r \in Reqs : pc[r] \in {"unused", "received", "awaitConnect", "awaitQuery",
                                "awaitPreview", "awaitDescribe", "awaitCount",
                                "done", "threw"}
  /\ \A r \in Reqs : sfConn[r] \in {0} \cup Reqs

\* ------------------------------------------------------------------ claims
Started(r) == pc[r] \notin {"unused", "received"}

CredsPresent(b) == Truthy(b.account) /\ Truthy(b.username) /\ Truthy(b.password)
TablePresent(b) == Truthy(b.database) /\ Truthy(b.schema) /\ Truthy(b.relation)

\* the calls request r made on handle h, in the order it made them
CallsOn(h, r) == LET ByR(c) == c.by = r IN SelectSeq(driverLog[h], ByR)
\* the calls request r made on the handle it holds
OwnCalls(r) == IF sfConn[r] = 0 THEN << >> ELSE CallsOn(sfConn[r], r)

Successful(r) == \E i \in DOMAIN sent[r] : sent[r][i].status = "successful"

FirstMissingCredential(b) ==
  IF ~Truthy(b.account) THEN <<"invalid account">>
  ELSE IF ~Truthy(b.username) THEN <<"invalid username">>
  ELSE <<"invalid password">>

\* C1: on each of the three endpoints, a request whose account, username or
\* password is missing is answered with exactly {status: 'unsuccessful',
\* reason: 'invalid <field>'} for the first missing field in the order account,
\* username, password, whatever the other fields and the driver's outcomes are.
C1_InvalidCredentialResponse ==
  \A r \in Reqs :
    (Started(r) /\ ~CredsPresent(body[r])) =>
      /\ Answered(r)
      /\ Response(r) = [status |-> "unsuccessful",
                        reason |-> FirstMissingCredential(body[r])]

\* a request without username whose handler went on to the driver and ended
C1_Witness ==
  \E r \in Reqs :
    /\ Terminal(r) /\ Truthy(body[r].account) /\ ~Truthy(body[r].username)
    /\ ~Truthy(body[r].database)
    /\ Len(OwnCalls(r)) > 1 /\ Len(sent[r]) > 1
    /\ Response(r).reason = <<"invalid username">>

ValidationFails(r) ==
  \/ ~CredsPresent(body[r])
  \/ endpoint[r] = "/query" /\ ~Truthy(body[r].query)
  \/ endpoint[r] = "/relation-preview" /\ ~TablePresent(body[r])

\* C2: on '/query' and '/relation-preview' a validation failure ends the
\* handler: no connection handle is built and no driver call is issued.
C2_ValidationShortCircuits ==
  \A r \in Reqs :
    (endpoint[r] \in {"/query", "/relation-preview"} /\ Started(r) /\ ValidationFails(r)) =>
      /\ connParams[r] = NotCalled
      /\ sfConn[r] = 0
      /\ \A h \in Reqs : CallsOn(h, r) = << >>

\* C3: on '/query', when connect succeeds and execute fails with message m,
\* the response is exactly {status: 'unsuccessful', reason: 'Error executing
\* Snowflake query: ' + m}, the success response is never written and no
\* driver call follows the failing execute.
C3_QueryExecuteFailure ==
  \A r \in Reqs :
    LET c == OwnCalls(r) IN
    (/\ endpoint[r] = "/query" /\ Len(c) >= 2
     /\ c[1].op = "connect" /\ c[1].outcome.kind = "ok"
     /\ c[2].op = "execute" /\ c[2].outcome.kind = "err") =>
      /\ Answered(r)
      /\ Response(r) = [status |-> "unsuccessful",
                        reason |-> <<"Error executing Snowflake query: ">>
                                     \o c[2].outcome.message]
      /\ ~Successful(r)
      /\ Len(c) = 2

FirstMissingTablePart(b) ==
  IF ~Truthy(b.database) THEN <<"A database must be provided">>
  ELSE IF ~Truthy(b.schema) THEN <<"A schema must be provided">>
  ELSE <<"A relation must be provided">>

\* C4 as claimed: a '/relation-preview' request without database, schema or
\* relation is answered with the reason of the first missing one, for every
\* combination of the other body fields.
C4_FirstMissingTablePart ==
  \A r \in Reqs :
    (endpoint[r] = "/relation-preview" /\ Started(r) /\ ~TablePresent(body[r])) =>
      /\ Answered(r)
      /\ Response(r).reason = FirstMissingTablePart(body[r])

\* C4 as amended: a '/relation-preview' request with account, username and
\* password present and without database, schema or relation is answered with
\* exactly {status: 'unsuccessful', reason: <the first missing of database,
\* schema, relation>}.
C4_FirstMissingTablePartGivenCredentials ==
  \A r \in Reqs :
    (/\ endpoint[r] = "/relation-preview" /\ Started(r)
     /\ CredsPresent(body[r]) /\ ~TablePresent(body[r])) =>
      /\ Answered(r)
      /\ Response(r) = [status |-> "unsuccessful",
                        reason |-> FirstMissingTablePart(body[r])]

\* credentials and database present, schema and relation missing
C4_Witness ==
  \E r \in Reqs :
    /\ endpoint[r] = "/relation-preview" /\ Terminal(r) /\ CredsPresent(body[r])
    /\ Truthy(body[r].database) /\ ~Truthy(body[r].schema) /\ ~Truthy(body[r].relation)
    /\ Response(r).reason = <<"A schema must be provided">>

\* C5: the object getSnowflakeConnection passes to the driver always holds
\* account, username and password as supplied, holds role (warehouse) exactly
\* when the supplied role (warehouse) is truthy, and then with the supplied value.
C5_ConnectionParams ==
  \A r \in Reqs :
    connParams[r] # NotCalled =>
      LET p == connParams[r]
          b == body[r]
      IN  /\ {"account", "username", "password"} \subseteq DOMAIN p
          /\ DOMAIN p \subseteq {"account", "username", "password", "role", "warehouse"}
          /\ p.account = b.account /\ p.username = b.username /\ p.password = b.password
          /\ ("role" \in DOMAIN p) <=> Truthy(b.role)
          /\ ("role" \in DOMAIN p) => p.role = b.role
          /\ ("warehouse" \in DOMAIN p) <=> Truthy(b.warehouse)
          /\ ("warehouse" \in DOMAIN p) => p.warehouse = b.warehouse

\* role sent as '' and a warehouse given: only the warehouse reaches the driver
C5_Witness ==
  \E r \in Reqs :
    /\ connParams[r] # NotCalled /\ sfConn[r] # 0
    /\ body[r].role = Empty /\ Truthy(body[r].warehouse)
    /\ DOMAIN connParams[r] = {"account", "username", "password", "warehouse"}

TableName(b) == b.database \o <<".">> \o b.schema \o <<".">> \o b.relation

AllSucceeded(c) ==
  /\ Len(c) = 4
  /\ \A i \in 1..4 : c[i].outcome.kind = "ok"

PreviewOrder == <<"connect", "SELECT * FROM ", "DESCRIBE TABLE ", "SELECT COUNT(*) AS CNT FROM ">>

StepOf(call) == IF call.op = "execute" THEN Head(call.sqlText) ELSE call.op

\* C7: within one '/relation-preview' request the driver calls are connect,
\* SELECT ... LIMIT 100, DESCRIBE TABLE, SELECT COUNT(*) in that order on one
\* handle, each issued after the previous one succeeded; when one fails the
\* handler writes {status: 'unsuccessful', reason: 'Error executing Snowflake
\* query: ' + message} and returns, no later query is issued and the success
\* response is never written.
C7_PreviewSequence ==
  \A r \in Reqs :
    endpoint[r] = "/relation-preview" =>
      LET c == OwnCalls(r) IN
      /\ \A h \in Reqs : h # sfConn[r] => CallsOn(h, r) = << >>
      /\ Len(c) <= 4
      /\ \A i \in DOMAIN c :
           /\ StepOf(c[i]) = PreviewOrder[i]
           /\ i > 1 => c[i - 1].outcome.kind = "ok"
           /\ c[i].outcome.kind = "err" =>
                /\ Len(c) = i
                /\ pc[r] = "done"
                /\ Answered(r)
                /\ Response(r) = [status |-> "unsuccessful",
                                  reason |-> <<"Error executing Snowflake query: ">>
                                               \o c[i].outcome.message]
                /\ ~Successful(r)

CountReturnedNoRow(r) ==
  LET c == OwnCalls(r) IN
  /\ endpoint[r] = "/relation-preview"
  /\ AllSucceeded(c)
  /\ c[4].outcome.rows = << >>

TypeErrorResponse ==
  [status |-> "unsuccessful",
   reason |-> <<"Error executing Snowflake query: ", "Cannot read property 'CNT' of undefined">>]

\* C8 as claimed: when the count query returns no row, the error raised by
\* rows[0].CNT is not caught by the handler and no {status: 'unsuccessful'}
\* response is written for it.
C8_ZeroRowsUnhandled ==
  \A r \in Reqs :
    CountReturnedNoRow(r) =>
      /\ pc[r] = "threw"
      /\ \A i \in DOMAIN sent[r] : sent[r][i] # TypeErrorResponse

\* C8 as amended: when the count query returns no row, the TypeError raised by
\* rows[0].CNT is caught by the catch of the count step: the handler passes
\* {status: 'unsuccessful', reason: 'Error executing Snowflake query: ' + <the
\* TypeError's message>} to res.send and never writes the success response;
\* for a request with the six required fields present this is the one
\* response and the handler returns normally.
C8_ZeroRowsCaught ==
  \A r \in Reqs :
    CountReturnedNoRow(r) =>
      /\ Terminal(r)
      /\ sent[r][Len(sent[r])] = TypeErrorResponse
      /\ ~Successful(r)
      /\ (CredsPresent(body[r]) /\ TablePresent(body[r])) =>
           (pc[r] = "done" /\ sent[r] = <<TypeErrorResponse>>)

\* a valid preview request whose count query came back empty
C8_Witness ==
  \E r \in Reqs :
    /\ CountReturnedNoRow(r) /\ CredsPresent(body[r]) /\ TablePresent(body[r])
    /\ pc[r] = "done"
    /\ Response(r) = TypeErrorResponse

\* the driver's answers to the calls of r, without the caller's name
Outcomes(r) ==
  LET c == OwnCalls(r) IN
  [i \in DOMAIN c |-> [op |-> c[i].op, sqlText |-> c[i].sqlText, outcome |-> c[i].outcome]]

\* C9: requests in flight together are isolated.  Each request that builds a
\* handle builds its own, every driver call of a request is on the handle it
\* holds, and two requests that ended with the same endpoint, the same body
\* and the same driver outcomes were answered alike; the connectionId in an
\* answer is the one of the request's own handle.
C9_RequestsIsolated ==
  /\ \A r1, r2 \in Reqs : (r1 # r2 /\ sfConn[r1] # 0) => sfConn[r1] # sfConn[r2]
  /\ \A r, h \in Reqs : h # sfConn[r] => CallsOn(h, r) = << >>
  /\ \A h \in Reqs : \A i \in DOMAIN driverLog[h] : sfConn[driverLog[h][i].by] = h
  /\ \A r \in Reqs : \A i \in DOMAIN sent[r] :
       "connectionId" \in DOMAIN sent[r][i] =>
          sent[r][i].connectionId = OwnCalls(r)[Len(OwnCalls(r))].outcome.message
  /\ \A r1, r2 \in Reqs :
       (/\ Terminal(r1) /\ Terminal(r2)
        /\ endpoint[r1] = endpoint[r2] /\ body[r1] = body[r2]
        /\ (sfConn[r1] = 0) <=> (sfConn[r2] = 0)
        /\ Outcomes(r1) = Outcomes(r2)) =>
          (sent[r1] = sent[r2] /\ pc[r1] = pc[r2])

\* two requests are in flight at the same time, one waiting for its count
\* query and the other for its statement, each with its calls on its own handle
C9_Witness ==
  \E r1, r2 \in Reqs :
    /\ r1 # r2
    /\ pc[r1] = "awaitCount" /\ pc[r2] = "awaitQuery"
    /\ Len(driverLog[sfConn[r1]]) = 4 /\ Len(driverLog[sfConn[r2]]) = 2

\* C10: res.send is invoked at most once per request on each of the three
\* endpoints; on '/' a connect failure writes the 'Error connecting to
\* Snowflake: ...' response and not the success response with connectionId.
C10_SingleSend ==
  \A r \in Reqs :
    /\ Len(sent[r]) <= 1
    /\ (/\ endpoint[r] = "/" /\ Len(OwnCalls(r)) > 0
        /\ OwnCalls(r)[1].outcome.kind = "err") =>
         (/\ Answered(r)
          /\ \A i \in DOMAIN sent[r] : "connectionId" \notin DOMAIN sent[r][i])
====
